---- MODULE Spec2Model ----
(***************************************************************************)
(* Online learning to rank: the feedback pipeline, the retraining step and *)
(* the explore-then-exploit schedule of oltr/online_ltr.py.                *)
(*                                                                         *)
(* Conventions.  Python lists and numpy arrays are TLA+ sequences, so a    *)
(* position is 1-based here where it is 0-based in the source; the VALUES  *)
(* (query ids, local document indices, global row indices) are 0-based as  *)
(* in the source.  The tuple appended to observed_training_data is a TLA+  *)
(* tuple: otd[0], otd[1], otd[2] of the source are otd[1], otd[2], otd[3]. *)
(* None is the empty sequence.  A ranker object is opaque; what it predicts *)
(* in a call is that call's score table over the rows of the collection.   *)
(***************************************************************************)
EXTENDS Integers, Sequences, FiniteSets, TLC

VARIABLES
  cls,                      \* class of the learner under test
  num_explore_iterations,   \* ExploreThenExploitOLTR.num_explore_iterations
  iteration,                \* ExploreThenExploitOLTR.iteration
  observed_training_data,   \* OnlineLTR.observed_training_data
  online_ranker,            \* the caller's ranker reference (online_rankers[lname])
  call,                     \* the most recent call: arguments, locals, outcome
  n_retrained,              \* number of update_ranker calls that returned a ranker
  query_log,                \* query_ids of every completed feedback collection
  rng,                      \* state of the process-wide numpy generator, per run
  draws                     \* values each learner has drawn so far, per run

lvars == <<cls, num_explore_iterations, iteration, observed_training_data,
           online_ranker, call, n_retrained, query_log>>
rvars == <<rng, draws>>
vars == <<lvars, rvars>>

(***************************************************************************)
(* Bounds of the model.                                                    *)
(***************************************************************************)
MaxEntries == 2   \* queries sampled by all feedback collections together
MaxIter == 2      \* retraining calls; exploration thresholds are below it
MaxDraws == 4     \* generator calls made by one learner in one run
MaxQueries == 2   \* queries of one stand-alone sample, ranking or evaluation

(***************************************************************************)
(* Sequences.                                                              *)
(***************************************************************************)
RECURSIVE Sum(_)
Sum(s) == IF s = <<>> THEN 0 ELSE Head(s) + Sum(Tail(s))

RECURSIVE Concatenate(_)
Concatenate(ss) == IF ss = <<>> THEN <<>> ELSE Head(ss) \o Concatenate(Tail(ss))

Cumsum(s) == [i \in 1..Len(s) |-> Sum(SubSeq(s, 1, i))]

\* a[lo:hi]
Slice(a, lo, hi) == SubSeq(a, lo + 1, hi)

None == <<>>

(***************************************************************************)
(* The query collections (oltr.utils.queries.Queries).                     *)
(***************************************************************************)
doc_count == <<1, 2>>
query_indptr == <<0>> \o Cumsum(doc_count)
relevance_scores == <<<<1>>, <<0, 2>>>>
valid_doc_count == <<2>>
test_doc_count == <<2>>

n_queries == Len(doc_count)
QueryIds == 0..(n_queries - 1)
DocumentCount(qid) == doc_count[qid + 1]
QueryIndptr(qid) == query_indptr[qid + 1]
RelevanceScores(qid) == relevance_scores[qid + 1]
NumRows == Sum(doc_count)

\* train_qset[query_ids].feature_vectors: the rows of the listed queries, in
\* the order listed; a row is named by its global row index.
FeatureVectors(query_ids) ==
  Concatenate([i \in 1..Len(query_ids) |->
                 [p \in 1..DocumentCount(query_ids[i]) |->
                    QueryIndptr(query_ids[i]) + p - 1]])

\* qset[query_ids].query_indptr
SubsetIndptr(query_ids) ==
  <<0>> \o Cumsum([i \in 1..Len(query_ids) |-> DocumentCount(query_ids[i])])

(***************************************************************************)
(* The collaborators: the ranker and the click model.                      *)
(***************************************************************************)
Scores == {0, 1}
TieBreakers == {0, 1}

\* gbm.LGBMRanker(**ranker_params) once fitted
LGBMRanker == <<"LGBMRanker">>

\* the score a ranker gives each row of the collection
ScoreTables == [1..NumRows -> Scores]

\* ranker.predict(features) for a ranker with the score table `table`
Predict(table, features) == [i \in 1..Len(features) |-> table[features[i] + 1]]

\* click_model.get_click(ordered_labels): a binary vector of the same length
GetClick(ordered_labels) == [1..Len(ordered_labels) -> {0, 1}]

(***************************************************************************)
(* numpy.                                                                  *)
(***************************************************************************)
\* np.random.choice(n, size)
RandomChoice(n, size) == [1..size -> 0..(n - 1)]

\* np.random.permutation(n)
RandomPermutation(n) ==
  {p \in [1..n -> 0..(n - 1)] : \A i, j \in 1..n : i # j => p[i] # p[j]}

\* np.random.rand(n)
RandomRand(n) == [1..n -> TieBreakers]

\* np.lexsort((secondary, primary)): the indices that sort by primary, ties by
\* secondary, remaining ties by position (the sort is stable).
Lexsort(secondary, primary) ==
  LET n == Len(primary)
      Before(i, j) == \/ primary[i] < primary[j]
                      \/ /\ primary[i] = primary[j]
                         /\ \/ secondary[i] < secondary[j]
                            \/ secondary[i] = secondary[j] /\ i < j
  IN [p \in 1..n |->
        (CHOOSE i \in 1..n : Cardinality({j \in 1..n : Before(j, i)}) = p - 1) - 1]

Negate(a) == [i \in 1..Len(a) |-> 0 - a[i]]

\* labels[i][rankings[i]]
Reorder(labels, ranking) == [p \in 1..Len(ranking) |-> labels[ranking[p] + 1]]

(***************************************************************************)
(* OnlineLTR.                                                              *)
(***************************************************************************)
OnlineLTR == "OnlineLTR"
ExploreThenExploitOLTR == "ExploreThenExploitOLTR"

\* qset.n_queries of the collection sample_query_ids selects by `data`
NQueries(data) ==
  IF data = "test" THEN Len(test_doc_count)
  ELSE IF data = "valid" THEN Len(valid_doc_count)
  ELSE n_queries

\* sample_query_ids(num_queries, data): drawn with replacement
SampleQueryIdsOf(num_queries, data) == RandomChoice(NQueries(data), num_queries)

\* sample_query_ids(num_queries)
SampleQueryIds(num_queries) == SampleQueryIdsOf(num_queries, "train")

NDocsPerQuery(query_ids) ==
  [i \in 1..Len(query_ids) |-> DocumentCount(query_ids[i])]

Indices(query_ids) == <<0>> \o Cumsum(NDocsPerQuery(query_ids))

Labels(query_ids) == [i \in 1..Len(query_ids) |-> RelevanceScores(query_ids[i])]

\* the slice [indices[i]:indices[i+1]] of a per-row array (i is 0-based in the
\* source, 1-based here)
QuerySlice(a, indices, i) == Slice(a, indices[i], indices[i + 1])

\* (variant: the scores are not negated, so the order is ascending)
ExploitRankingsAscending(scores, query_ids, tie_breakers) ==
  LET indices == Indices(query_ids)
  IN [i \in 1..Len(query_ids) |->
        Lexsort(QuerySlice(tie_breakers, indices, i),
                QuerySlice(scores, indices, i))]

\* the ranker branch of get_labels_and_rankings
ExploitRankings(scores, query_ids, tie_breakers) ==
  LET indices == Indices(query_ids)
  IN [i \in 1..Len(query_ids) |->
        Lexsort(QuerySlice(tie_breakers, indices, i),
                Negate(QuerySlice(scores, indices, i)))]

\* the ranker-is-None branch of get_labels_and_rankings
ExploreRankings(query_ids) ==
  {r \in [1..Len(query_ids) ->
            UNION {RandomPermutation(doc_count[k]) : k \in 1..n_queries}] :
     \A i \in 1..Len(query_ids) : Len(r[i]) = DocumentCount(query_ids[i])}

\* get_labels_and_rankings(ranker, num_queries) after the ids are sampled:
\* every (policy, tie_breakers, rankings) the random draws allow
GetLabelsAndRankings(ranker, query_ids) ==
  IF ranker = None
  THEN {[policy |-> "explore", scores |-> <<>>, tie_breakers |-> <<>>,
         rankings |-> r] : r \in ExploreRankings(query_ids)}
  ELSE {[policy |-> "exploit", scores |-> scores, tie_breakers |-> t,
         rankings |-> ExploitRankings(scores, query_ids, t)] :
          scores \in {Predict(table, FeatureVectors(query_ids)) :
                        table \in ScoreTables},
          t \in RandomRand(Len(FeatureVectors(query_ids)))}

\* apply_click_model_to_labels_and_scores: every list of click vectors the
\* click model can return
ApplyClickModel(labels, rankings) ==
  {c \in [1..Len(rankings) -> UNION {[1..doc_count[k] -> {0, 1}] : k \in 1..n_queries}] :
     \A i \in 1..Len(rankings) : c[i] \in GetClick(Reorder(labels[i], rankings[i]))}

\* (variant: the observation stops at the first click)
LastPosFirstClick(click) ==
  IF Sum(click) = 0 THEN Len(click)
  ELSE CHOOSE p \in 1..Len(click) :
         click[p] # 0 /\ \A r \in 1..(p - 1) : click[r] = 0

\* last observed position of a ranking
LastPos(click) ==
  IF Sum(click) = 0 THEN Len(click)
  ELSE CHOOSE p \in 1..Len(click) :
         click[p] # 0 /\ \A r \in (p + 1)..Len(click) : click[r] = 0

\* (variant: the offset is taken at the position i, not at the query id)
TrainIndicesByPosition(query_ids, rankings, last_pos) ==
  [i \in 1..Len(query_ids) |->
     [p \in 1..last_pos[i] |-> query_indptr[i] + rankings[i][p]]]

\* query_indptr[qid] + rankings[i][:last_pos[i]]
TrainIndices(query_ids, rankings, last_pos) ==
  [i \in 1..Len(query_ids) |->
     [p \in 1..last_pos[i] |-> QueryIndptr(query_ids[i]) + rankings[i][p]]]

\* the tuple generate_training_data_from_clicks builds
TrainingBatch(query_ids, clicks, rankings) ==
  LET last_pos == [i \in 1..Len(clicks) |-> LastPos(clicks[i])]
      train_labels == [i \in 1..Len(clicks) |-> SubSeq(clicks[i], 1, last_pos[i])]
      train_indices == TrainIndices(query_ids, rankings, last_pos)
      train_q_list_sizes == [i \in 1..Len(train_indices) |-> Len(train_indices[i])]
  IN <<train_indices, Concatenate(train_labels), train_q_list_sizes>>

\* np.concatenate of an empty list raises ValueError
GenerateRaises(query_ids) == Len(query_ids) = 0

\* (variant: one tuple is appended per query)
GenerateTrainingDataPerQuery(otd, query_ids, clicks, rankings) ==
  otd \o [i \in 1..Len(query_ids) |->
            TrainingBatch(<<query_ids[i]>>, <<clicks[i]>>, <<rankings[i]>>)]

\* observed_training_data after generate_training_data_from_clicks
GenerateTrainingDataFromClicks(otd, query_ids, clicks, rankings) ==
  Append(otd, TrainingBatch(query_ids, clicks, rankings))

\* (variant: the queries before the failing one are appended)
HistoryAfterClickFailurePartial(otd, query_ids, clicks, rankings, fail_at) ==
  IF fail_at = 0 THEN otd
  ELSE GenerateTrainingDataFromClicks(otd, SubSeq(query_ids, 1, fail_at),
                                      SubSeq(clicks, 1, fail_at),
                                      SubSeq(rankings, 1, fail_at))

\* observed_training_data after the click model raised on query fail_at
\* (0-based) of an update: the exception leaves apply_click_model_..., so
\* generate_training_data_from_clicks is never called
HistoryAfterClickFailure(otd, query_ids, clicks, rankings, fail_at) == otd

NoFit == [called |-> FALSE, X |-> <<>>, y |-> <<>>, group |-> <<>>]

\* (variant: only the newest batch is passed)
FitArgsLastBatch(otd) ==
  LET last == otd[Len(otd)]
  IN [called |-> TRUE, X |-> Concatenate(last[1]), y |-> last[2], group |-> last[3]]

\* the arguments update_ranker passes to ranker.fit
FitArgs(otd) ==
  LET train_indices == Concatenate([b \in 1..Len(otd) |-> otd[b][1]])
  IN [called |-> TRUE,
      X |-> Concatenate(train_indices),
      y |-> Concatenate([b \in 1..Len(otd) |-> otd[b][2]]),
      group |-> Concatenate([b \in 1..Len(otd) |-> otd[b][3]])]

\* (variant: an empty history yields an unfitted ranker)
UpdateRankerDefaulting(otd) ==
  IF otd = <<>>
  THEN {[raised |-> "none", ranker |-> LGBMRanker, fit |-> NoFit]}
  ELSE {[raised |-> "none", ranker |-> LGBMRanker, fit |-> FitArgs(otd)],
        [raised |-> "fit", ranker |-> None, fit |-> FitArgs(otd)]}

\* OnlineLTR.update_ranker: every outcome of the call (a ranker returned, the
\* ValueError of line 145, or ranker.fit raising)
UpdateRanker(otd) ==
  IF otd = <<>>
  THEN {[raised |-> "ValueError", ranker |-> None, fit |-> NoFit]}
  ELSE {[raised |-> "none", ranker |-> LGBMRanker, fit |-> FitArgs(otd)],
        [raised |-> "fit", ranker |-> None, fit |-> FitArgs(otd)]}

(***************************************************************************)
(* ExploreThenExploitOLTR.                                                 *)
(***************************************************************************)
\* (variant: the threshold iteration itself still explores)
PolicyRankerInclusive(class, iter, threshold, ranker) ==
  IF class = ExploreThenExploitOLTR
  THEN (IF iter <= threshold THEN None ELSE ranker)
  ELSE ranker

\* the ranker_ that get_labels_and_rankings hands to the base class
PolicyRanker(class, iter, threshold, ranker) ==
  IF class = ExploreThenExploitOLTR
  THEN (IF iter < threshold THEN None ELSE ranker)
  ELSE ranker

\* self.iteration after update_ranker was entered
IterationAfterUpdateRanker(class, iter) ==
  IF class = ExploreThenExploitOLTR THEN iter + 1 ELSE iter

(***************************************************************************)
(* The state machine of one learner and its caller.                        *)
(***************************************************************************)
NoCall == [op |-> "init", ranker |-> None, ranker_ |-> None, iteration |-> 0,
           num_queries |-> 0, policy |-> "none", query_ids |-> <<>>, scores |-> <<>>,
           tie_breakers |-> <<>>,
           rankings |-> <<>>, clicks |-> <<>>, raised |-> "none", fail_at |-> 0,
           fit |-> NoFit]

RECURSIVE TotalEntries(_)
TotalEntries(otd) ==
  IF otd = <<>> THEN 0 ELSE Len(Head(otd)[1]) + TotalEntries(Tail(otd))

(***************************************************************************)
(* The process-wide generator np.random.  Two runs of the same learner are  *)
(* followed side by side: in run 1 it is the only learner of the process,   *)
(* in run 2 a second learner is constructed and stepped in the same         *)
(* process.  rng[r] is the generator of run r; draws[1] and draws[2] are    *)
(* what the learner gets in run 1 and in run 2, draws[3] what the second    *)
(* learner gets in run 2.  The generator is a stand-in with the one         *)
(* property that matters: the stream is a function of the seed and of the   *)
(* number of calls made since.                                              *)
(***************************************************************************)
seed == 42

\* np.random.seed(seed)
RandomSeed(s) == s % 16

\* the generator's state after one more call
RandomNext(x) == (5 * x + 3) % 16

RECURSIVE RandomValues(_, _)
\* the values of the next k calls from state x
RandomValues(x, k) ==
  IF k = 0 THEN <<>> ELSE <<x>> \o RandomValues(RandomNext(x), k - 1)

RECURSIVE RandomAfter(_, _)
RandomAfter(x, k) == IF k = 0 THEN x ELSE RandomAfter(RandomNext(x), k - 1)

\* calls of np.random made by one operation of a learner: sample_query_ids
\* draws the ids (line 47), evaluate_ranker the tie-breakers (line 193),
\* update_learner the ids (line 60), the permutation or the tie-breakers
\* (line 67 or 71, one query) and the validation ids (line 151)
GeneratorCalls(op) ==
  IF op = "update_learner" THEN 3 ELSE 1

LearnerOps == {"sample_query_ids", "evaluate_ranker", "update_learner"}

\* every learner is constructed before the first step (lines 304-310), each
\* construction seeding the generator (line 24)
InitRng == /\ rng = <<RandomSeed(seed), RandomSeed(seed)>>
           /\ draws = <<<<>>, <<>>, <<>>>>

Init ==
  /\ cls \in {OnlineLTR, ExploreThenExploitOLTR}
  /\ num_explore_iterations \in
       IF cls = ExploreThenExploitOLTR THEN 0..(MaxIter - 1) ELSE {0}
  /\ iteration = 0
  /\ observed_training_data = <<>>
  /\ online_ranker = None
  /\ call = NoCall
  /\ n_retrained = 0
  /\ query_log = <<>>
  /\ InitRng

CanRetrain == iteration < MaxIter /\ n_retrained < MaxIter

\* The three feedback calls of update_learner (lines 167-172) on `ranker`,
\* followed, when `retrain`, by update_ranker (line 175).
Feedback(op, ranker, retrain) ==
  /\ call = NoCall
  /\ \E num_queries \in 0..(MaxEntries - TotalEntries(observed_training_data)) :
     \E query_ids \in SampleQueryIds(num_queries) :
       LET ranker_ == PolicyRanker(cls, iteration, num_explore_iterations, ranker)
           entry == [NoCall EXCEPT !.op = op, !.ranker = ranker, !.ranker_ = ranker_,
                                   !.iteration = iteration,
                                   !.num_queries = num_queries,
                                   !.policy = IF ranker_ = None THEN "explore"
                                              ELSE "exploit"]
       IN
       \* ranker.predict raises
       \/ /\ ranker_ # None
          /\ call' = [entry EXCEPT !.raised = "ranker"]
          /\ UNCHANGED <<iteration, observed_training_data, online_ranker,
                         n_retrained, query_log>>
       \/ \E rankings \in {g.rankings : g \in GetLabelsAndRankings(ranker_, query_ids)} :
          \E clicks \in ApplyClickModel(Labels(query_ids), rankings) :
            \* click_model.get_click raises on query fail_at
            \/ \E fail_at \in 0..(num_queries - 1) :
                 /\ call' = [entry EXCEPT !.raised = "click_model",
                                          !.fail_at = fail_at]
                 /\ observed_training_data' =
                      HistoryAfterClickFailure(observed_training_data, query_ids,
                                               clicks, rankings, fail_at)
                 /\ UNCHANGED <<iteration, online_ranker, n_retrained, query_log>>
            \* np.concatenate raises in generate_training_data_from_clicks
            \/ /\ GenerateRaises(query_ids)
               /\ call' = [entry EXCEPT !.raised = "ValueError"]
               /\ UNCHANGED <<iteration, observed_training_data, online_ranker,
                              n_retrained, query_log>>
            \/ /\ ~GenerateRaises(query_ids)
               /\ LET otd == GenerateTrainingDataFromClicks(
                               observed_training_data, query_ids, clicks,
                               rankings)
                      collected == [entry EXCEPT !.query_ids = query_ids,
                                                 !.rankings = rankings,
                                                 !.clicks = clicks]
                  IN /\ observed_training_data' = otd
                     /\ query_log' = Append(query_log, query_ids)
                     /\ IF retrain
                        THEN /\ CanRetrain
                             /\ \E out \in UpdateRanker(otd) :
                                  /\ call' = [collected EXCEPT !.raised = out.raised,
                                                               !.fit = out.fit]
                                  /\ online_ranker' = IF out.raised = "none"
                                                      THEN out.ranker
                                                      ELSE online_ranker
                                  /\ n_retrained' = IF out.raised = "none"
                                                    THEN n_retrained + 1
                                                    ELSE n_retrained
                             /\ iteration' = IterationAfterUpdateRanker(cls, iteration)
                        ELSE /\ call' = collected
                             /\ UNCHANGED <<iteration, online_ranker, n_retrained>>

\* online_rankers[lname] = online_learners[lname].update_learner(
\*   online_rankers[lname], num_train_queries, click_model, ...)
UpdateLearnerCall ==
  /\ Feedback("update_learner", online_ranker, TRUE)
  /\ UNCHANGED <<cls, num_explore_iterations, rvars>>

\* get_labels_and_rankings, apply_click_model_to_labels_and_scores and
\* generate_training_data_from_clicks called without retraining
CollectFeedbackCall ==
  /\ \E ranker \in {None, LGBMRanker} : Feedback("collect_feedback", ranker, FALSE)
  /\ UNCHANGED <<cls, num_explore_iterations, rvars>>

\* a direct call of update_ranker(ranker_params, fit_params)
UpdateRankerCall ==
  /\ call = NoCall
  /\ CanRetrain
  /\ \E out \in UpdateRanker(observed_training_data) :
       /\ call' = [NoCall EXCEPT !.op = "update_ranker", !.iteration = iteration,
                                 !.raised = out.raised, !.fit = out.fit]
       /\ online_ranker' = IF out.raised = "none" THEN out.ranker ELSE online_ranker
       /\ n_retrained' = IF out.raised = "none" THEN n_retrained + 1 ELSE n_retrained
  /\ iteration' = IterationAfterUpdateRanker(cls, iteration)
  /\ UNCHANGED <<cls, num_explore_iterations, observed_training_data, query_log, rvars>>

\* test_query_ids = sample_query_ids(num_test_queries, data='test')
SampleQueryIdsCall ==
  /\ call = NoCall
  /\ \E query_ids \in SampleQueryIdsOf(MaxQueries, "test") :
       call' = [NoCall EXCEPT !.op = "sample_query_ids", !.iteration = iteration,
                              !.num_queries = MaxQueries,
                              !.query_ids = query_ids]
  /\ UNCHANGED <<cls, num_explore_iterations, iteration, observed_training_data,
                 online_ranker, n_retrained, query_log, rvars>>

\* evaluate_ranker(online_rankers[lname], eval_params, query_ids): it returns
\* a number and changes nothing of the learner; None has no predict
EvaluateRankerCall ==
  /\ call = NoCall
  /\ call' = [NoCall EXCEPT !.op = "evaluate_ranker", !.iteration = iteration,
                            !.ranker = online_ranker, !.ranker_ = online_ranker,
                            !.raised = IF online_ranker = None
                                       THEN "AttributeError" ELSE "none"]
  /\ UNCHANGED <<cls, num_explore_iterations, iteration, observed_training_data,
                 online_ranker, n_retrained, query_log, rvars>>

\* the call has returned or raised: its frame is gone, the caller goes on
Return ==
  /\ call # NoCall
  /\ call' = NoCall
  /\ UNCHANGED <<cls, num_explore_iterations, iteration, observed_training_data,
                 online_ranker, n_retrained, query_log, rvars>>

Next ==
  \/ UpdateLearnerCall
  \/ CollectFeedbackCall
  \/ UpdateRankerCall
  \/ SampleQueryIdsCall
  \/ EvaluateRankerCall
  \/ Return

Spec == Init /\ [][Next]_vars

(***************************************************************************)
(* The rankings of one call, with the scores and tie-breakers behind them. *)
(* get_labels_and_rankings and evaluate_ranker read nothing of the history,*)
(* so the learner is a new one and the ranker an input.                    *)
(***************************************************************************)
InitRank ==
  /\ cls \in {OnlineLTR, ExploreThenExploitOLTR}
  /\ num_explore_iterations \in
       IF cls = ExploreThenExploitOLTR THEN 0..(MaxIter - 1) ELSE {0}
  /\ iteration = 0
  /\ observed_training_data = <<>>
  /\ online_ranker \in {None, LGBMRanker}
  /\ call = NoCall
  /\ n_retrained = 0
  /\ query_log = <<>>
  /\ InitRng

\* get_labels_and_rankings(ranker, num_queries), dispatched on the class
GetLabelsAndRankingsCall ==
  /\ call = NoCall
  /\ \E num_queries \in 0..MaxQueries :
     \E query_ids \in SampleQueryIds(num_queries) :
       LET ranker_ == PolicyRanker(cls, iteration, num_explore_iterations,
                                   online_ranker)
       IN \E got \in GetLabelsAndRankings(ranker_, query_ids) :
            call' = [NoCall EXCEPT !.op = "get_labels_and_rankings",
                                   !.ranker = online_ranker,
                                   !.ranker_ = ranker_,
                                   !.policy = got.policy,
                                   !.query_ids = query_ids,
                                   !.scores = got.scores,
                                   !.tie_breakers = got.tie_breakers,
                                   !.rankings = got.rankings]
  /\ UNCHANGED <<cls, num_explore_iterations, iteration, observed_training_data,
                 online_ranker, n_retrained, query_log, rvars>>

\* the rankings of evaluate_ranker (lines 192-198)
EvaluateRankings(scores, query_ids, tie_breakers) ==
  LET indices == SubsetIndptr(query_ids)
  IN [i \in 1..Len(query_ids) |->
        Lexsort(QuerySlice(tie_breakers, indices, i),
                Negate(QuerySlice(scores, indices, i)))]

\* evaluate_ranker(ranker, eval_params, query_ids, data='train') up to the
\* rankings
EvaluateRankingsCall ==
  /\ call = NoCall
  /\ online_ranker # None
  /\ \E num_queries \in 1..MaxQueries :
     \E query_ids \in SampleQueryIds(num_queries) :
     \E scores \in {Predict(table, FeatureVectors(query_ids)) : table \in ScoreTables} :
     \E tie_breakers \in RandomRand(Len(scores)) :
       call' = [NoCall EXCEPT !.op = "evaluate_ranker",
                              !.ranker = online_ranker,
                              !.ranker_ = online_ranker,
                              !.policy = "exploit",
                              !.query_ids = query_ids,
                              !.scores = scores,
                              !.tie_breakers = tie_breakers,
                              !.rankings = EvaluateRankings(scores, query_ids,
                                                            tie_breakers)]
  /\ UNCHANGED <<cls, num_explore_iterations, iteration, observed_training_data,
                 online_ranker, n_retrained, query_log, rvars>>

NextRank ==
  \/ GetLabelsAndRankingsCall
  \/ EvaluateRankingsCall

SpecRank == InitRank /\ [][NextRank]_vars

InitDraws ==
  /\ cls = OnlineLTR
  /\ num_explore_iterations = 0
  /\ iteration = 0
  /\ observed_training_data = <<>>
  /\ online_ranker = None
  /\ call = NoCall
  /\ n_retrained = 0
  /\ query_log = <<>>
  /\ InitRng

\* the learner makes the same call in both runs
LearnerDraws ==
  /\ \E op \in LearnerOps :
       LET k == GeneratorCalls(op)
       IN /\ Len(draws[1]) + k <= MaxDraws
          /\ draws' = [draws EXCEPT ![1] = @ \o RandomValues(rng[1], k),
                                    ![2] = @ \o RandomValues(rng[2], k)]
          /\ rng' = <<RandomAfter(rng[1], k), RandomAfter(rng[2], k)>>
  /\ UNCHANGED lvars

\* the second learner of run 2 makes a call
OtherLearnerDraws ==
  /\ \E op \in LearnerOps :
       LET k == GeneratorCalls(op)
       IN /\ Len(draws[3]) + k <= MaxDraws
          /\ draws' = [draws EXCEPT ![3] = @ \o RandomValues(rng[2], k)]
          /\ rng' = <<rng[1], RandomAfter(rng[2], k)>>
  /\ UNCHANGED lvars

NextDraws ==
  \/ LearnerDraws
  \/ OtherLearnerDraws

SpecDraws == InitDraws /\ [][NextDraws]_vars

(***************************************************************************)
(* Properties.                                                             *)
(***************************************************************************)
FeedbackOps == {"update_learner", "collect_feedback"}

\* the most recent call was a feedback collection whose batch was appended
Collected ==
  /\ call.op \in FeedbackOps
  /\ call.raised \in {"none", "fit"}

LastBatch == observed_training_data[Len(observed_training_data)]

IsPermutation(r, n) ==
  /\ Len(r) = n
  /\ \A d \in 0..(n - 1) : \E p \in 1..n : r[p] = d

\* C1 as stated: the history holds one entry per sampled query, so its
\* length is the sum of the query counts of the completed collections.
C1_EntryPerQuery ==
  Len(observed_training_data) =
    Sum([b \in 1..Len(query_log) |-> Len(query_log[b])])

\* C1 as amended: the history holds one entry per completed collection; the
\* entry of a collection of q queries is one batch of q row-index arrays, the
\* concatenated kept labels and q kept lengths, so the row-index arrays of
\* all batches together number the sum of the query counts.  A collection of
\* no query raises and appends nothing.
C1_BatchPerCall ==
  /\ Len(observed_training_data) = Len(query_log)
  /\ \A b \in 1..Len(observed_training_data) :
       LET batch == observed_training_data[b]
       IN /\ Len(query_log[b]) >= 1
          /\ Len(batch[1]) = Len(query_log[b])
          /\ Len(batch[3]) = Len(query_log[b])
          /\ \A i \in 1..Len(batch[1]) : batch[3][i] = Len(batch[1][i])
          /\ Len(batch[2]) = Sum(batch[3])
  /\ TotalEntries(observed_training_data) =
       Sum([b \in 1..Len(query_log) |-> Len(query_log[b])])
  /\ (call.op \in FeedbackOps /\ call.raised = "ValueError")
       => call.num_queries = 0
  /\ Collected => call.num_queries = Len(LastBatch[1])

C1_Witness ==
  /\ Len(observed_training_data) = 1
  /\ Len(query_log[1]) = 2

\* C2 as stated: an update_learner call of an explore-then-exploit learner
\* ranks by exploration exactly when the iteration counter is below the
\* threshold.
C2_ExploreIffBelowThreshold ==
  (cls = ExploreThenExploitOLTR /\ call.op = "update_learner")
    => (call.policy = "explore" <=> call.iteration < num_explore_iterations)

\* C2 as amended: it ranks by exploration exactly when the iteration counter
\* is below the threshold or the supplied ranker is None; otherwise it ranks
\* by the supplied ranker.
C2_ExploreIffBelowThresholdOrNoRanker ==
  (cls = ExploreThenExploitOLTR /\ call.op = "update_learner")
    => /\ call.policy = "explore" <=>
            (call.iteration < num_explore_iterations \/ call.ranker = None)
       /\ call.policy = "exploit" => call.ranker_ = call.ranker

C2_Witness ==
  /\ cls = ExploreThenExploitOLTR
  /\ call.op = "update_learner"
  /\ num_explore_iterations = 1
  /\ call.iteration = 1
  /\ call.policy = "exploit"

\* C3 as stated: when the click model raises on query j of an update, the
\* entries of the j queries before it stay appended to the history.
C3_ProcessedQueriesKept ==
  [][(call'.op = "update_learner" /\ call'.raised = "click_model")
       => TotalEntries(observed_training_data') =
            TotalEntries(observed_training_data) + call'.fail_at]_vars

\* C3 as amended: when the click model or the ranker raises during an update,
\* the failure reaches the caller (no ranker is returned, nothing is
\* retrained) and the history is left as it was before the call: no query of
\* the call contributes an entry.
C3_FailureAppendsNothing ==
  [][(call'.op = "update_learner" /\ call'.raised \in {"click_model", "ranker"})
       => /\ observed_training_data' = observed_training_data
          /\ online_ranker' = online_ranker
          /\ n_retrained' = n_retrained
          /\ iteration' = iteration
          /\ ~call'.fit.called]_vars

C3_Witness ==
  /\ call.op = "update_learner"
  /\ call.raised = "click_model"
  /\ call.fail_at >= 1

\* the kept labels of query i within the concatenated labels of a batch
KeptLabels(batch, i) ==
  LET offset == Sum(SubSeq(batch[3], 1, i - 1))
  IN SubSeq(batch[2], offset + 1, offset + batch[3][i])

\* C4: for every query of a collected batch, the kept length t is the
\* position after the last click, or the whole ranking when nothing was
\* clicked; the kept labels are the first t clicks, the kept rows the first t
\* ranked documents, and 1 <= t <= the query's document count.
C4_Truncation ==
  Collected =>
    \A i \in 1..Len(call.query_ids) :
      LET c == call.clicks[i]
          t == LastBatch[3][i]
          qid == call.query_ids[i]
      IN /\ (\E p \in 1..Len(c) : c[p] = 1)
              => (c[t] = 1 /\ \A p \in (t + 1)..Len(c) : c[p] = 0)
         /\ (\A p \in 1..Len(c) : c[p] = 0) => t = Len(c)
         /\ KeptLabels(LastBatch, i) = SubSeq(c, 1, t)
         /\ LastBatch[1][i] =
              [p \in 1..t |-> query_indptr[qid + 1] + call.rankings[i][p]]
         /\ 1 <= t
         /\ t <= doc_count[qid + 1]

C4_Witness ==
  /\ Collected
  /\ call.clicks = <<<<1, 0>>, <<0, 0>>>>
  /\ LastBatch[3] = <<1, 2>>

\* C5: every row index stored for a query lies in that query's row range,
\* and no row index repeats within one query's entry.
C5_RowsInQueryRange ==
  /\ Len(query_log) = Len(observed_training_data)
  /\ \A b \in 1..Len(observed_training_data) :
     \A i \in 1..Len(observed_training_data[b][1]) :
       LET rows == observed_training_data[b][1][i]
           qid == query_log[b][i]
       IN /\ \A p \in 1..Len(rows) :
               /\ query_indptr[qid + 1] <= rows[p]
               /\ rows[p] < query_indptr[qid + 2]
          /\ \A p, r \in 1..Len(rows) : p # r => rows[p] # rows[r]

C5_Witness ==
  /\ Collected
  /\ call.policy = "exploit"
  /\ call.query_ids = <<1, 1>>
  /\ LastBatch[3] = <<2, 2>>

\* C6: update_ranker on an empty history ends in the ValueError, with no
\* ranker fitted or returned and the history still empty; with a non-empty
\* history it reaches the fit call.
C6_EmptyHistoryRaises ==
  /\ call.op = "update_ranker" =>
       IF observed_training_data = <<>>
       THEN /\ call.raised = "ValueError"
            /\ ~call.fit.called
            /\ online_ranker = None
            /\ n_retrained = 0
       ELSE /\ call.fit.called
            /\ call.raised \in {"none", "fit"}
  /\ Collected /\ call.op = "update_learner" => call.fit.called

C6_Witness ==
  /\ call.op = "update_ranker"
  /\ call.raised = "ValueError"
  /\ observed_training_data = <<>>

\* C7: what a learner draws does not depend on the other learners of the
\* process: its draws in the run where it is alone and in the run with a
\* second learner are the same.
C7_DrawsIndependentOfOtherLearners == draws[1] = draws[2]

\* the score and the tie-breaker of local document d of query i of the call
ScoreOf(i, d) ==
  call.scores[Sum([k \in 1..(i - 1) |-> doc_count[call.query_ids[k] + 1]]) + d + 1]

TieBreakerOf(i, d) ==
  call.tie_breakers[Sum([k \in 1..(i - 1) |-> doc_count[call.query_ids[k] + 1]]) + d + 1]

\* C8: every ranking is a permutation of the query's local indices; a
\* ranking by a ranker puts a document of higher score first whatever the
\* tie-breakers are, and orders documents of equal score by tie-breaker.
C8_RankingIsSortedPermutation ==
  call.op \in {"get_labels_and_rankings", "evaluate_ranker"} =>
    /\ Len(call.rankings) = Len(call.query_ids)
    /\ \A i \in 1..Len(call.query_ids) :
         LET r == call.rankings[i]
             n == doc_count[call.query_ids[i] + 1]
         IN /\ IsPermutation(r, n)
            /\ call.policy = "exploit" =>
                 \A p, q \in 1..n :
                   p < q =>
                     \/ ScoreOf(i, r[p]) > ScoreOf(i, r[q])
                     \/ /\ ScoreOf(i, r[p]) = ScoreOf(i, r[q])
                        /\ TieBreakerOf(i, r[p]) <= TieBreakerOf(i, r[q])

C8_Witness ==
  /\ call.op = "get_labels_and_rankings"
  /\ call.policy = "exploit"
  /\ call.query_ids = <<0, 1>>
  /\ call.scores = <<1, 0, 1>>
  /\ call.rankings = <<<<0>>, <<1, 0>>>>

\* C9: the iteration counter of an explore-then-exploit learner is the
\* number of update_ranker calls that returned a ranker.
C9_IterationCountsRetrainings ==
  cls = ExploreThenExploitOLTR => iteration = n_retrained

IsPrefix(s, t) == Len(s) <= Len(t) /\ SubSeq(t, 1, Len(s)) = s

RECURSIVE AllRows(_)
AllRows(otd) ==
  IF otd = <<>> THEN <<>> ELSE Concatenate(Head(otd)[1]) \o AllRows(Tail(otd))

RECURSIVE AllLabels(_)
AllLabels(otd) == IF otd = <<>> THEN <<>> ELSE Head(otd)[2] \o AllLabels(Tail(otd))

RECURSIVE AllSizes(_)
AllSizes(otd) == IF otd = <<>> THEN <<>> ELSE Head(otd)[3] \o AllSizes(Tail(otd))

\* C10: the history only grows by appending (and update_ranker,
\* evaluate_ranker and sample_query_ids leave it as it is), and every fit
\* call gets the rows, labels and group sizes of all batches, in history
\* order, the group sizes summing to the number of labels and of rows.
C10_AppendOnlyFullRefit ==
  /\ [][/\ IsPrefix(observed_training_data, observed_training_data')
        /\ call'.op \in {"update_ranker", "evaluate_ranker", "sample_query_ids"}
             => observed_training_data' = observed_training_data]_vars
  /\ [](call.fit.called =>
          /\ call.fit.X = AllRows(observed_training_data)
          /\ call.fit.y = AllLabels(observed_training_data)
          /\ call.fit.group = AllSizes(observed_training_data)
          /\ Sum(call.fit.group) = Len(call.fit.y)
          /\ Sum(call.fit.group) = Len(call.fit.X))

C10_Witness ==
  /\ Len(observed_training_data) = 2
  /\ call.fit.called
  /\ call.op = "update_learner"

====
